---- MODULE Spec2Model ----
(***************************************************************************)
(* Model of the crawler in backend/app/core/scraper.py: normalize_url,     *)
(* discover_links, scrape_section, parse_page and their helpers.           *)
(*                                                                         *)
(* A Python str is a sequence of one-character strings, so that parsing,   *)
(* joining, prefix tests and sorting are computed character by character.  *)
(* A function that can raise returns [ok, val]: ok = FALSE is the raise.   *)
(***************************************************************************)
EXTENDS Integers, Sequences, FiniteSets, TLC

(***************************************************************************)
(* Bounds                                                                  *)
(***************************************************************************)
\* longest raw string handed to normalize_url in SpecNorm
MaxLen == 6
\* most anchors on a seed page in Spec
MaxAnchors == 2

\* the longest sequence of heading and paragraph elements of a parsed page
MaxElems == 2

\* the most persisted pages, the most chunks of a page, the most indexing runs
MaxDocs == 2
MaxChunks == 2
MaxRuns == 2

(***************************************************************************)
(* str primitives                                                          *)
(***************************************************************************)
LowerLetters ==
  <<"a","b","c","d","e","f","g","h","i","j","k","l","m",
    "n","o","p","q","r","s","t","u","v","w","x","y","z">>
UpperLetters ==
  <<"A","B","C","D","E","F","G","H","I","J","K","L","M",
    "N","O","P","Q","R","S","T","U","V","W","X","Y","Z">>

IsLower(c) == \E i \in 1..26 : LowerLetters[i] = c
IsUpper(c) == \E i \in 1..26 : UpperLetters[i] = c

\* code point of a character, the key of str comparison
Ord(c) ==
  IF IsLower(c) THEN 96 + (CHOOSE i \in 1..26 : LowerLetters[i] = c)
  ELSE IF IsUpper(c) THEN 64 + (CHOOSE i \in 1..26 : UpperLetters[i] = c)
  ELSE CASE c = " " -> 32
         [] c = "#" -> 35
         [] c = "." -> 46
         [] c = "/" -> 47
         [] c = ":" -> 58
         [] c = "?" -> 63
         [] c = "@" -> 64

\* str.lower() on one character
LowerChar(c) ==
  IF IsUpper(c) THEN LowerLetters[CHOOSE i \in 1..26 : UpperLetters[i] = c]
  ELSE c

LowerStr(s) == [i \in 1..Len(s) |-> LowerChar(s[i])]

\* s.find(any of cs, from): least index >= from holding a character of cs, 0 if none
IndexOf(s, cs, from) ==
  IF \E i \in from..Len(s) : s[i] \in cs
  THEN CHOOSE i \in from..Len(s) :
         s[i] \in cs /\ \A j \in from..(i - 1) : s[j] \notin cs
  ELSE 0

\* s[a-1:b] of Python, empty when a > b
Slice(s, a, b) == IF a > b THEN <<>> ELSE SubSeq(s, a, b)

\* s.startswith(p)
startswith(s, p) ==
  Len(p) <= Len(s) /\ \A i \in 1..Len(p) : s[i] = p[i]

\* s.rstrip("/")
RECURSIVE rstrip_slash(_)
rstrip_slash(s) ==
  IF Len(s) > 0 /\ s[Len(s)] = "/" THEN rstrip_slash(Slice(s, 1, Len(s) - 1))
  ELSE s

Whitespace == {" "}

\* s.strip()
RECURSIVE strip(_)
strip(s) ==
  IF Len(s) > 0 /\ s[1] \in Whitespace THEN strip(Tail(s))
  ELSE IF Len(s) > 0 /\ s[Len(s)] \in Whitespace
       THEN strip(Slice(s, 1, Len(s) - 1))
       ELSE s

\* s.split("/"): the segments between slashes, empty ones kept
RECURSIVE split_slash(_)
split_slash(s) ==
  LET i == IndexOf(s, {"/"}, 1) IN
  IF i = 0 THEN <<s>>
  ELSE <<Slice(s, 1, i - 1)>> \o split_slash(Slice(s, i + 1, Len(s)))

\* sep.join(parts)
RECURSIVE join(_, _)
join(sep, parts) ==
  IF Len(parts) = 0 THEN <<>>
  ELSE IF Len(parts) = 1 THEN parts[1]
  ELSE parts[1] \o sep \o join(sep, Tail(parts))

\* str(n) for a non-negative int
Digits == <<"0","1","2","3","4","5","6","7","8","9">>
RECURSIVE str_int(_)
str_int(n) ==
  IF n < 10 THEN <<Digits[n + 1]>>
  ELSE str_int(n \div 10) \o <<Digits[(n % 10) + 1]>>

\* a < b for str: first differing code point decides, a proper prefix is smaller
StrLess(a, b) ==
  LET n == IF Len(a) < Len(b) THEN Len(a) ELSE Len(b)
      differ == {i \in 1..n : a[i] # b[i]}
  IN IF differ = {} THEN Len(a) < Len(b)
     ELSE LET d == CHOOSE i \in differ : \A j \in differ : i <= j
          IN Ord(a[d]) < Ord(b[d])

\* sorted(..., reverse=True)
RECURSIVE sorted_desc(_)
sorted_desc(S) ==
  IF S = {} THEN <<>>
  ELSE LET m == CHOOSE x \in S : \A y \in S \ {x} : StrLess(y, x)
       IN <<m>> \o sorted_desc(S \ {m})

\* sorted(set of str)
RECURSIVE sorted(_)
sorted(S) ==
  IF S = {} THEN <<>>
  ELSE LET m == CHOOSE x \in S : \A y \in S \ {x} : StrLess(x, y)
       IN <<m>> \o sorted(S \ {m})

(***************************************************************************)
(* urllib.parse as the scraper uses it                                     *)
(***************************************************************************)
HTTPS == <<"h","t","t","p","s">>
HTTP == <<"h","t","t","p">>
MAILTO == <<"m","a","i","l","t","o",":">>
TEL == <<"t","e","l",":">>

\* schemes of the model that urllib lists in uses_relative and uses_netloc
uses_relative == {<<>>, HTTP, HTTPS}
uses_netloc == {<<>>, HTTP, HTTPS}

\* scheme_chars of urllib restricted to the characters of the model
IsSchemeChar(c) == IsLower(c) \/ IsUpper(c) \/ c = "."

\* index of the ':' ending a scheme, 0 when the string has no scheme
SchemeEnd(url) ==
  LET i == IndexOf(url, {":"}, 1) IN
  IF i > 1 /\ (IsLower(url[1]) \/ IsUpper(url[1]))
           /\ \A k \in 1..(i - 1) : IsSchemeChar(url[k])
  THEN i ELSE 0

\* urlparse(url, scheme=default), the steps of urlsplit in order; each step
\* hands the pieces it has cut to the next (params stay empty: no string of
\* the model holds ';')

\* if '?' in url: url, query = url.split('?', 1), with q the place of '?'
split_query_at(scheme, netloc, r3, fragment, q) ==
  [scheme |-> scheme, netloc |-> netloc,
   path |-> IF q > 0 THEN Slice(r3, 1, q - 1) ELSE r3,
   query |-> IF q > 0 THEN Slice(r3, q + 1, Len(r3)) ELSE <<>>,
   fragment |-> fragment]

\* if '#' in url: url, fragment = url.split('#', 1), with f the place of '#'
split_fragment_at(scheme, netloc, r2, f) ==
  split_query_at(scheme, netloc,
                 IF f > 0 THEN Slice(r2, 1, f - 1) ELSE r2,
                 IF f > 0 THEN Slice(r2, f + 1, Len(r2)) ELSE <<>>,
                 IndexOf(IF f > 0 THEN Slice(r2, 1, f - 1) ELSE r2, {"?"}, 1))

\* _splitnetloc(url, 2), with d the place of the first of '/', '?', '#'
split_netloc_at(scheme, rest, d) ==
  split_fragment_at(scheme,
                    Slice(rest, 3, IF d = 0 THEN Len(rest) ELSE d - 1),
                    IF d = 0 THEN <<>> ELSE Slice(rest, d, Len(rest)),
                    IF d = 0 THEN 0
                    ELSE IndexOf(Slice(rest, d, Len(rest)), {"#"}, 1))

\* if url[:2] == '//': netloc, url = _splitnetloc(url, 2)
split_netloc(scheme, rest) ==
  IF Len(rest) >= 2 /\ rest[1] = "/" /\ rest[2] = "/"
  THEN split_netloc_at(scheme, rest, IndexOf(rest, {"/", "?", "#"}, 3))
  ELSE split_fragment_at(scheme, <<>>, rest, IndexOf(rest, {"#"}, 1))

\* scheme, url = url[:i].lower(), url[i+1:], with i the ':' ending the scheme
split_scheme(url, default, i) ==
  split_netloc(IF i > 0 THEN LowerStr(Slice(url, 1, i - 1)) ELSE default,
               IF i > 0 THEN Slice(url, i + 1, Len(url)) ELSE url)

urlparse_default(url, default) == split_scheme(url, default, SchemeEnd(url))

urlparse(url) == urlparse_default(url, <<>>)

\* urlunsplit: '//' + netloc + url, the path given a leading '/'
with_netloc(netloc, path) ==
  <<"/", "/">> \o netloc
    \o (IF path # <<>> /\ path[1] # "/" THEN <<"/">> ELSE <<>>) \o path

\* urlunparse(parts)
urlunparse(p) ==
  (IF p.scheme # <<>> THEN p.scheme \o <<":">> ELSE <<>>)
  \o (IF p.netloc # <<>>
         \/ (p.scheme # <<>> /\ p.scheme \in uses_netloc
             /\ ~startswith(p.path, <<"/", "/">>))
      THEN with_netloc(p.netloc, p.path) ELSE p.path)
  \o (IF p.query # <<>> THEN <<"?">> \o p.query ELSE <<>>)
  \o (IF p.fragment # <<>> THEN <<"#">> \o p.fragment ELSE <<>>)

\* the loop of urljoin that resolves '.' and '..' segments
RECURSIVE resolve_segments(_, _)
resolve_segments(segments, resolved) ==
  IF Len(segments) = 0 THEN resolved
  ELSE LET seg == Head(segments) IN
       IF seg = <<".", ".">>
       THEN resolve_segments(Tail(segments),
                             Slice(resolved, 1, Len(resolved) - 1))
       ELSE IF seg = <<".">>
       THEN resolve_segments(Tail(segments), resolved)
       ELSE resolve_segments(Tail(segments), Append(resolved, seg))

\* segments[1:-1] = filter(None, segments[1:-1])
filter_inner(segments) ==
  IF Len(segments) < 3 THEN segments
  ELSE <<segments[1]>>
       \o SelectSeq(Slice(segments, 2, Len(segments) - 1),
                    LAMBDA s : s # <<>>)
       \o <<segments[Len(segments)]>>

\* base_parts of urljoin: bpath.split('/') without a last item that is no
\* directory
base_parts_of(bp) ==
  IF bp[Len(bp)] # <<>> THEN Slice(bp, 1, Len(bp) - 1) ELSE bp

\* '/'.join(resolved_path) or '/', with the '' appended after a last '.', '..'
join_resolved(segments, resolved) ==
  IF segments[Len(segments)] \in {<<".">>, <<".", ".">>}
  THEN IF resolved = <<>> THEN <<"/">>
       ELSE join(<<"/">>, Append(resolved, <<>>))
  ELSE IF join(<<"/">>, resolved) = <<>> THEN <<"/">>
       ELSE join(<<"/">>, resolved)

resolve_path(segments) ==
  join_resolved(segments, resolve_segments(segments, <<>>))

\* the path urljoin gives a reference with path upath under a base with bpath
merge_path(bpath, upath) ==
  IF upath[1] = "/" THEN resolve_path(split_slash(upath))
  ELSE resolve_path(filter_inner(base_parts_of(split_slash(bpath))
                                 \o split_slash(upath)))

\* urljoin after both arguments are parsed: b the base, u the reference
urljoin_parsed(url, b, u) ==
  IF u.scheme # b.scheme \/ u.scheme \notin uses_relative THEN url
  ELSE IF u.scheme \in uses_netloc /\ u.netloc # <<>> THEN urlunparse(u)
  ELSE IF u.path = <<>>
  THEN urlunparse([scheme |-> u.scheme,
                   netloc |-> IF u.scheme \in uses_netloc THEN b.netloc
                              ELSE u.netloc,
                   path |-> b.path,
                   query |-> IF u.query = <<>> THEN b.query ELSE u.query,
                   fragment |-> u.fragment])
  ELSE urlunparse([scheme |-> u.scheme,
                   netloc |-> IF u.scheme \in uses_netloc THEN b.netloc
                              ELSE u.netloc,
                   path |-> merge_path(b.path, u.path),
                   query |-> u.query, fragment |-> u.fragment])

urljoin_base(url, b) == urljoin_parsed(url, b, urlparse_default(url, b.scheme))

\* urljoin(base, url)
urljoin(base, url) ==
  IF base = <<>> THEN url
  ELSE IF url = <<>> THEN base
  ELSE urljoin_base(url, urlparse(base))

(***************************************************************************)
(* normalize_url                                                           *)
(***************************************************************************)
Ok(v) == [ok |-> TRUE, val |-> v]
Raise(msg) == [ok |-> FALSE, val |-> msg]

ValueError == <<"V">>

\* lines 100-101: the scheme defaults to https
default_scheme(parsed) ==
  IF parsed.scheme = <<>> THEN [parsed EXCEPT !.scheme = HTTPS] ELSE parsed

\* lines 102-105 that also close the path with a '/', without looking whether
\* it ends in one
normalize_parsed_slash(parsed) ==
  IF parsed.netloc = <<>> THEN Raise(ValueError)
  ELSE Ok(urlunparse([parsed EXCEPT !.fragment = <<>>, !.query = <<>>,
                                    !.path = parsed.path \o <<"/">>]))

\* lines 102-105 that clear the fragment only
normalize_parsed_keep_query(parsed) ==
  IF parsed.netloc = <<>> THEN Raise(ValueError)
  ELSE Ok(urlunparse([parsed EXCEPT !.fragment = <<>>]))

\* lines 102-105: no netloc raises, else query and fragment are cleared
normalize_parsed(parsed) ==
  IF parsed.netloc = <<>> THEN Raise(ValueError)
  ELSE Ok(urlunparse([parsed EXCEPT !.fragment = <<>>, !.query = <<>>]))

normalize_url_slash(url) == normalize_parsed_slash(default_scheme(urlparse(url)))

normalize_url_keep_query(url) ==
  normalize_parsed_keep_query(default_scheme(urlparse(url)))

normalize_url(url) == normalize_parsed(default_scheme(urlparse(url)))

(***************************************************************************)
(* Markup.  A page is what BeautifulSoup's queries return on it:           *)
(*   anchors   the <a> elements in document order, [has_href, href]        *)
(*   og_title  the first <meta property="og:title">: [present,             *)
(*             has_content, content]                                       *)
(*   title     the <title> element: [present, strings]                     *)
(*   elems     the h1..h6 and p elements in document order, [tag, strings] *)
(*   breadcrumb  the first element whose class contains "breadcrumb":      *)
(*             [present, items], items its li/span/a descendants           *)
(* strings are the text nodes below an element, in document order.         *)
(***************************************************************************)
None == [some |-> FALSE, val |-> <<>>]
Some(v) == [some |-> TRUE, val |-> v]

\* tag.get_text(separator, strip=True): the stripped non-empty text nodes joined
get_text(strings, separator) ==
  join(separator, SelectSeq([i \in 1..Len(strings) |-> strip(strings[i])],
                            LAMBDA t : t # <<>>))

\* re.sub(r"\s+", " ", value): every run of whitespace becomes one space
RECURSIVE collapse_ws(_)
collapse_ws(s) ==
  IF Len(s) = 0 THEN <<>>
  ELSE IF s[1] \in Whitespace
       THEN IF Len(s) > 1 /\ s[2] \in Whitespace THEN collapse_ws(Tail(s))
            ELSE <<" ">> \o collapse_ws(Tail(s))
       ELSE <<s[1]>> \o collapse_ws(Tail(s))

normalize_whitespace(value) == strip(collapse_ws(value))

\* tag.string: the text of a tag with exactly one text node, else None
tag_string(strings) == IF Len(strings) = 1 THEN Some(strings[1]) ELSE None

\* line 168: the text of the first h1 of a non-empty list of them
first_heading_text(h1s) ==
  IF Len(h1s) > 0 THEN Some(get_text(h1s[1].strings, <<>>)) ELSE None

\* lines 163-164 on soup.title.string
title_from_string(string) ==
  IF string.some /\ string.val # <<>> THEN Some(strip(string.val)) ELSE None

extract_title(soup) ==
  IF soup.og_title.present /\ soup.og_title.has_content
     /\ soup.og_title.content # <<>>
  THEN Some(strip(soup.og_title.content))
  ELSE IF soup.title.present
          /\ title_from_string(tag_string(soup.title.strings)).some
  THEN title_from_string(tag_string(soup.title.strings))
  ELSE first_heading_text(SelectSeq(soup.elems, LAMBDA e : e.tag = "h1"))

\* the non-empty texts of a sequence of elements
nonempty_texts(texts) == SelectSeq(texts, LAMBDA t : t # <<>>)

\* lines 175-178 on the h1..h3 elements found
heading_texts(hs) ==
  nonempty_texts([i \in 1..Len(hs) |-> get_text(hs[i].strings, <<" ">>)])

extract_headings(soup) ==
  heading_texts(SelectSeq(soup.elems, LAMBDA e : e.tag \in {"h1", "h2", "h3"}))

\* lines 184-187 on the p elements found
paragraph_texts(ps) ==
  nonempty_texts([i \in 1..Len(ps) |->
                    normalize_whitespace(get_text(ps[i].strings, <<" ">>))])

extract_paragraphs(soup) ==
  paragraph_texts(SelectSeq(soup.elems, LAMBDA e : e.tag = "p"))

\* lines 197-200 on the li, span and a elements of the container
breadcrumb_texts(items) ==
  nonempty_texts([i \in 1..Len(items) |-> get_text(items[i].strings, <<>>)])

extract_breadcrumbs(soup) ==
  IF ~soup.breadcrumb.present THEN <<>>
  ELSE breadcrumb_texts(soup.breadcrumb.items)

extract_path_segments(url) ==
  SelectSeq(split_slash(urlparse(url).path), LAMBDA seg : seg # <<>>)

\* PageContent(url, title, ...): the dataclass with its defaults
PageContent(url, title, headings, paragraphs, content, metadata, source, tags, retrieved_at, error) ==
  [url |-> url, title |-> title, headings |-> headings,
   paragraphs |-> paragraphs, content |-> content, metadata |-> metadata,
   source |-> source, tags |-> tags, retrieved_at |-> retrieved_at,
   error |-> error]

\* metadata_of that sets heading_count whether or not there are headings
metadata_of_count(breadcrumbs, headings) ==
  [k \in (IF breadcrumbs # <<>> THEN {"breadcrumbs"} ELSE {})
         \cup {"heading_count"} |->
     IF k = "breadcrumbs" THEN breadcrumbs ELSE str_int(Len(headings))]

\* lines 139-143: the metadata dict
metadata_of(breadcrumbs, headings) ==
  [k \in (IF breadcrumbs # <<>> THEN {"breadcrumbs"} ELSE {})
         \cup (IF headings # <<>> THEN {"heading_count"} ELSE {}) |->
     IF k = "breadcrumbs" THEN breadcrumbs ELSE str_int(Len(headings))]

\* page_of that separates the paragraphs of content by a single newline
page_of_newline(url, title, headings, paragraphs, breadcrumbs, now) ==
  PageContent(url, title, headings, paragraphs,
              join(<<"\n">>, paragraphs),
              metadata_of(breadcrumbs, headings),
              urlparse(url).netloc, extract_path_segments(url), now, None)

\* page_of that also notes the time of retrieval in the metadata
page_of_stamped(url, title, headings, paragraphs, breadcrumbs, now) ==
  PageContent(url, title, headings, paragraphs,
              join(<<"\n", "\n">>, paragraphs),
              [k \in DOMAIN metadata_of(breadcrumbs, headings) \cup {"retrieved"} |->
                 IF k = "retrieved" THEN str_int(now)
                 ELSE metadata_of(breadcrumbs, headings)[k]],
              urlparse(url).netloc, extract_path_segments(url), now, None)

\* lines 139-155 once the extractors have run
page_of(url, title, headings, paragraphs, breadcrumbs, now) ==
  PageContent(url, title, headings, paragraphs,
              join(<<"\n", "\n">>, paragraphs),
              metadata_of(breadcrumbs, headings),
              urlparse(url).netloc, extract_path_segments(url), now, None)

parse_page(url, soup, now) ==
  page_of(url, extract_title(soup), extract_headings(soup),
          extract_paragraphs(soup), extract_breadcrumbs(soup), now)

\* failed_page that stores the message of the exception as the content too
failed_page_content(link, exc, now) ==
  PageContent(link, None, <<>>, <<>>, exc, <<>>, urlparse(link).netloc,
              extract_path_segments(link), now, Some(exc))

\* the placeholder built in the except branch of scrape_section
failed_page(link, exc, now) ==
  PageContent(link, None, <<>>, <<>>, <<>>, <<>>, urlparse(link).netloc,
              extract_path_segments(link), now, Some(exc))

(***************************************************************************)
(* discover_links                                                          *)
(***************************************************************************)
\* line 111: allowed_prefix
allowed_prefix_of(stripped) == IF stripped = <<>> THEN <<"/">> ELSE stripped

\* lines 121-124: the candidate has the host of the base and a path that
\* starts with allowed_prefix
in_scope(parsed, base_parsed) ==
  /\ parsed.netloc = base_parsed.netloc
  /\ startswith(parsed.path, allowed_prefix_of(rstrip_slash(base_parsed.path)))

\* skipped that lets tel: through
skipped_tel_kept(href) ==
  href = <<>> \/ startswith(href, MAILTO)

\* lines 116-117: the hrefs the loop skips
skipped(href) ==
  href = <<>> \/ startswith(href, MAILTO) \/ startswith(href, TEL)

\* lines 120-126 for a normalized candidate: the discovered set after it
add_candidate(base_url, candidate, discovered) ==
  IF in_scope(urlparse(candidate), urlparse(base_url))
  THEN discovered \cup {candidate} ELSE discovered

\* the for loop over soup.find_all("a", href=True), from anchor i on; the
\* ValueError of normalize_url ends it
RECURSIVE discover_loop(_, _, _, _)
discover_step(base_url, anchors, i, discovered, candidate) ==
  IF ~candidate.ok THEN candidate
  ELSE discover_loop(base_url, anchors, i + 1,
                     add_candidate(base_url, candidate.val, discovered))

discover_loop(base_url, anchors, i, discovered) ==
  IF i > Len(anchors) THEN Ok(discovered)
  ELSE IF skipped(strip(anchors[i].href))
  THEN discover_loop(base_url, anchors, i + 1, discovered)
  ELSE discover_step(base_url, anchors, i, discovered,
                     normalize_url(urljoin(base_url, strip(anchors[i].href))))

\* line 128: return sorted(discovered)
sorted_result(discovered) ==
  IF discovered.ok THEN Ok(sorted(discovered.val)) ELSE discovered

discover_links(base_url, html) ==
  sorted_result(discover_loop(base_url,
                              SelectSeq(html.anchors, LAMBDA a : a.has_href),
                              1, {base_url}))

(***************************************************************************)
(* Inputs of the runs: seeds, the markup served for the seed, the markup   *)
(* served for a discovered page, and the ways a fetch fails.               *)
(***************************************************************************)
Str_p == <<"h","t","t","p","s",":","/","/","h","/","p">>

\* https://example.edu/programs
ProgramsSeed ==
  <<"h","t","t","p","s",":","/","/","e","x","a","m","p","l","e",".","e","d","u",
    "/","p","r","o","g","r","a","m","s">>

\* base_url arguments of scrape_section
Seeds ==
  { Str_p,                                             \* https://h/p
    Str_p \o <<"/">>,                                  \* https://h/p/
    <<"/","/","h","/","p","/","a","?","q">>,           \* //h/p/a?q
    <<"h","t","t","p","s",":","/","/","h">>,           \* https://h
    <<"h","/","p">>,                                   \* h/p : no host
    ProgramsSeed }

A(href) == [has_href |-> TRUE, href |-> href]

\* the <a> elements a seed page is built from
Anchors ==
  { A(<<"/","p","/","a">>),                            \* /p/a
    A(<<"/","p","/","a","/">>),                        \* /p/a/
    A(<<"/","p","/","a","?","q">>),                    \* /p/a?q
    A(<<"/","p","/","a","#","f">>),                    \* /p/a#f
    A(<<"/","p","q">>),                                \* /pq
    A(<<"h","t","t","p","s",":","/","/","o","/","p","/","a">>),
    A(<<"j","a","v","a","s","c","r","i","p","t",":","v">>),
    A(<<"m","a","i","l","t","o",":","a">>),            \* mailto:a
    A(<<"t","e","l",":","a">>),                        \* tel:a
    A(<<" ">>),                                        \* blank href
    A(<<" ","/","p","/","b"," ">>),                    \* padded /p/b
    A(<<"b">>),                                        \* relative b
    A(<<"#","f">>),                                    \* #f
    [has_href |-> FALSE, href |-> <<>>] }              \* <a> without href

RECURSIVE SeqsUpTo(_, _)
SeqsUpTo(S, n) ==
  IF n = 0 THEN {<<>>}
  ELSE LET shorter == SeqsUpTo(S, n - 1)
       IN shorter \cup {Append(q, x) : q \in {r \in shorter : Len(r) = n - 1},
                                       x \in S}

NoMeta == [present |-> FALSE, has_content |-> FALSE, content |-> <<>>]
NoTitle == [present |-> FALSE, strings |-> <<>>]
NoBreadcrumb == [present |-> FALSE, items |-> <<>>]

Markup(anchors, og_title, title, elems, breadcrumb) ==
  [anchors |-> anchors, og_title |-> og_title, title |-> title,
   elems |-> elems, breadcrumb |-> breadcrumb]

\* a page with the links /programs/cs, /programs/ee, https://other.edu/x and
\* mailto:a@b.c
ProgramsPage ==
  Markup(<< A(<<"/","p","r","o","g","r","a","m","s","/","c","s">>),
            A(<<"/","p","r","o","g","r","a","m","s","/","e","e">>),
            A(<<"h","t","t","p","s",":","/","/","o","t","h","e","r",".","e","d","u",
                "/","x">>),
            A(<<"m","a","i","l","t","o",":","a","@","b",".","c">>) >>,
         NoMeta, NoTitle, <<>>, NoBreadcrumb)

\* what the first fetch of the seed can return
SeedPages ==
  { Markup(a, NoMeta, NoTitle, <<>>, NoBreadcrumb) :
      a \in SeqsUpTo(Anchors, MaxAnchors) }

\* the pages a site serves at a URL: example.edu serves its programs page
PagesAt(url) ==
  IF urlparse(url).netloc = urlparse(ProgramsSeed).netloc THEN {ProgramsPage}
  ELSE SeedPages

\* what a fetch of the loop can return: a bare page and a page with a title,
\* a heading, two paragraphs and a breadcrumb trail; both link to /p/z, a page
\* no seed page links to, and the second links back to /p and on to /p/a
LinkZ == A(<<"/","p","/","z">>)
LinkP == A(<<"/","p">>)
LinkA == A(<<"/","p","/","a">>)
SubPages ==
  { Markup(<<LinkZ>>, NoMeta, NoTitle, <<>>, NoBreadcrumb),
    Markup(<<LinkP, LinkA, LinkZ>>, NoMeta,
           [present |-> TRUE, strings |-> <<<<" ","t">>>>],
           << [tag |-> "h1", strings |-> <<<<"h">>, <<" ">>, <<"i">>>>],
              [tag |-> "p", strings |-> <<<<"x"," "," ","y">>>>],
              [tag |-> "h4", strings |-> <<<<"d">>>>],
              [tag |-> "p", strings |-> <<<<"z">>>>] >>,
           [present |-> TRUE,
            items |-> << [tag |-> "li", strings |-> <<<<"c">>>>] >>]) }

\* str(exc) of a failed fetch; raise_for_status and requests.get raise into
\* the same handlers, which keep nothing of the exception but its str()
FetchErrors == {<<"4","0","4">>}

(***************************************************************************)
(* State of one run of scrape_section                                      *)
(***************************************************************************)
VARIABLES
  pc,               \* "start", "fetch_seed", "discover", "loop", "fetching",
                    \* "returned", "raised"
  base_url,         \* the argument
  normalized_base,  \* local of scrape_section
  html,             \* markup of the seed, local of scrape_section
  subpages,         \* result of discover_links
  link_idx,         \* position of the for loop in subpages
  results,          \* the list scrape_section builds and returns
  exc,              \* the exception that left scrape_section, None if none
  fetched,          \* history: the calls of fetch_html in order, [url, ok, body]
  page_html,        \* local of the loop: the markup the last fetch returned
  seed_links,       \* history: what discover_links returned for the seed page
  clock,            \* time, one tick per request
  run_no,           \* 1 in the first run on a seed, 2 in its repetition
  first_results,    \* what the first run returned, once it is repeated
  replay,           \* the responses of the first run, served again to the second
  raw,              \* SpecNorm: the string under test
  once,             \* SpecNorm: normalize_url(raw)
  twice,            \* SpecNorm: normalize_url of that result
  soup,             \* SpecParse: the parsed markup handed to parse_page
  page_url,         \* SpecParse: the URL handed to parse_page
  page,             \* SpecParse: what parse_page returned, None before the call
  ipc,              \* SpecIndex: "idle", "doc", "chunk", "embed", "add"
  all_docs,         \* SpecIndex: the persisted pages, [chunks] each
  run_count,        \* SpecIndex: the calls of index_scraped_pages so far
  doc_pos,          \* SpecIndex: position of the loop over all_docs
  chunk_i,          \* SpecIndex: i, position of the loop over chunks
  chroma_collection,  \* SpecIndex: the ids in the vector collection
  reembedded,       \* SpecIndex, history: ids embedded while in the collection
  readded,          \* SpecIndex, history: ids added while in the collection
  rpc,              \* SpecRoute: "start", "get", "parse", "loop", "returned",
                    \* "raised"
  target_url,       \* SpecRoute: local of scrape
  client,           \* SpecRoute: "unopened", "open", "closed"
  response,         \* SpecRoute: the markup of the target page
  scraped,          \* SpecRoute: page, the ScrapedPage of the target page
  text_blocks,      \* SpecRoute: local of scrape
  links,            \* SpecRoute: local of scrape
  subpage_links,    \* SpecRoute: subpages, the links with is_subpage
  link_pos,         \* SpecRoute: position of the for loop in subpages
  subpage_details,  \* SpecRoute: local of scrape
  raised,           \* SpecRoute: the exception that left scrape, None if none
  requests          \* SpecRoute, history: the calls of client.get in order,
                    \* [url, client] with the state of the client at the call

det_vars == <<run_no, first_results, replay>>
crawl_vars == <<pc, base_url, normalized_base, html, subpages, link_idx,
                results, exc, fetched, page_html, seed_links, clock, det_vars>>
norm_vars == <<raw, once, twice>>
parse_vars == <<soup, page_url, page>>
index_vars == <<ipc, all_docs, run_count, doc_pos, chunk_i, chroma_collection,
                reembedded, readded>>
route_vars == <<rpc, target_url, client, response, scraped, text_blocks, links,
                subpage_links, link_pos, subpage_details, raised, requests>>
rest_vars == <<parse_vars, index_vars, route_vars>>
aux_vars == <<det_vars, norm_vars, rest_vars>>
vars == <<crawl_vars, norm_vars, rest_vars>>

Unset == [ok |-> FALSE, val |-> <<>>]

InitCrawl ==
  /\ pc = "start"
  /\ normalized_base = <<>>
  /\ html = Markup(<<>>, NoMeta, NoTitle, <<>>, NoBreadcrumb)
  /\ subpages = <<>>
  /\ link_idx = 0
  /\ results = <<>>
  /\ exc = None
  /\ fetched = <<>>
  /\ page_html = Markup(<<>>, NoMeta, NoTitle, <<>>, NoBreadcrumb)
  /\ seed_links = <<>>
  /\ clock = 0
  /\ run_no = 1
  /\ first_results = <<>>
  /\ replay = <<>>

InitNorm == raw = <<>> /\ once = Unset /\ twice = Unset

InitParse ==
  /\ soup = Markup(<<>>, NoMeta, NoTitle, <<>>, NoBreadcrumb)
  /\ page_url = <<>>
  /\ page = None

InitIndex ==
  /\ ipc = "idle"
  /\ all_docs = <<>>
  /\ run_count = 0
  /\ doc_pos = 0
  /\ chunk_i = 0
  /\ chroma_collection = {}
  /\ reembedded = {}
  /\ readded = {}

InitRoute ==
  /\ rpc = "start"
  /\ target_url = <<>>
  /\ client = "unopened"
  /\ response = Markup(<<>>, NoMeta, NoTitle, <<>>, NoBreadcrumb)
  /\ scraped = None
  /\ text_blocks = <<>>
  /\ links = <<>>
  /\ subpage_links = <<>>
  /\ link_pos = 0
  /\ subpage_details = <<>>
  /\ raised = None
  /\ requests = <<>>

InitRest == InitParse /\ InitIndex /\ InitRoute

Init == base_url \in Seeds /\ InitCrawl /\ InitNorm /\ InitRest

\* line 65: normalized_base = normalize_url(base_url)
NormalizeBase ==
  /\ pc = "start"
  /\ \E n \in {normalize_url(base_url)} :
       IF n.ok
       THEN /\ normalized_base' = n.val
            /\ pc' = "fetch_seed"
            /\ exc' = exc
       ELSE /\ normalized_base' = normalized_base
            /\ pc' = "raised"
            /\ exc' = Some(n.val)
  /\ UNCHANGED <<base_url, html, subpages, link_idx, results, fetched,
                 page_html, seed_links, clock, aux_vars>>

\* one call of fetch_html as the run saw it: the URL, whether it returned, and
\* the markup it returned or the str() of the exception it raised
Responded(url, ok, body) == [url |-> url, ok |-> ok, body |-> body]

\* what a request can be answered with: anything in the first run, in its
\* repetition what the same request was answered with in the first run
Serves(ok, body) ==
  \/ run_no = 1
  \/ /\ Len(fetched) < Len(replay)
     /\ replay[Len(fetched) + 1].ok = ok
     /\ replay[Len(fetched) + 1].body = body

\* line 66, fetch_html returns
FetchSeedOk ==
  /\ pc = "fetch_seed"
  /\ \E m \in PagesAt(normalized_base) :
       /\ Serves(TRUE, m)
       /\ html' = m
       /\ fetched' = Append(fetched, Responded(normalized_base, TRUE, m))
  /\ clock' = clock + 1
  /\ pc' = "discover"
  /\ UNCHANGED <<base_url, normalized_base, subpages, link_idx, results, exc,
                 page_html, seed_links, aux_vars>>

\* line 66, fetch_html raises: the exception leaves scrape_section
FetchSeedFail ==
  /\ pc = "fetch_seed"
  /\ \E e \in FetchErrors :
       /\ Serves(FALSE, e)
       /\ exc' = Some(e)
       /\ fetched' = Append(fetched, Responded(normalized_base, FALSE, e))
  /\ clock' = clock + 1
  /\ pc' = "raised"
  /\ UNCHANGED <<base_url, normalized_base, html, subpages, link_idx, results,
                 page_html, seed_links, aux_vars>>

\* line 67: subpages = discover_links(normalized_base, html)
Discover ==
  /\ pc = "discover"
  /\ \E d \in {discover_links(normalized_base, html)} :
       IF d.ok
       THEN /\ subpages' = d.val
            /\ seed_links' = d.val
            /\ link_idx' = 1
            /\ pc' = "loop"
            /\ exc' = exc
       ELSE /\ subpages' = subpages
            /\ seed_links' = seed_links
            /\ link_idx' = link_idx
            /\ pc' = "raised"
            /\ exc' = Some(d.val)
  /\ UNCHANGED <<base_url, normalized_base, html, results, fetched, page_html,
                 clock, aux_vars>>

\* lines 70-72: fetch_html sends the request for link j.  The for loop takes
\* the links in order, one at a time, and requests.get blocks: the loop does
\* nothing else until it returns or raises
StartFetchOf(j) ==
  /\ pc = "loop"
  /\ j = link_idx
  /\ j <= Len(subpages)
  /\ pc' = "fetching"
  /\ UNCHANGED <<base_url, normalized_base, html, subpages, link_idx, results,
                 exc, fetched, page_html, seed_links, clock, aux_vars>>

StartFetchLink == \E j \in 1..Len(subpages) : StartFetchOf(j)

\* FetchLinkOk that also queues the links found on the fetched page
FetchLinkOk_recursive ==
  /\ pc = "fetching"
  /\ \E m \in SubPages :
       /\ Serves(TRUE, m)
       /\ results' = Append(results, parse_page(subpages[link_idx], m, clock + 1))
       /\ page_html' = m
       /\ fetched' = Append(fetched, Responded(subpages[link_idx], TRUE, m))
       /\ subpages' = subpages
            \o SelectSeq(discover_links(subpages[link_idx], m).val,
                         LAMBDA u : \A k \in 1..Len(subpages) :
                                      subpages[k] # u)
  /\ clock' = clock + 1
  /\ link_idx' = link_idx + 1
  /\ pc' = "loop"
  /\ UNCHANGED <<base_url, normalized_base, html, exc, seed_links, aux_vars>>

\* lines 72, 85-87: the fetch of the link returns, the page is parsed
FetchLinkOk ==
  /\ pc = "fetching"
  /\ \E m \in SubPages :
       /\ Serves(TRUE, m)
       /\ results' = Append(results, parse_page(subpages[link_idx], m, clock + 1))
       /\ page_html' = m
       /\ fetched' = Append(fetched, Responded(subpages[link_idx], TRUE, m))
  /\ clock' = clock + 1
  /\ link_idx' = link_idx + 1
  /\ pc' = "loop"
  /\ UNCHANGED <<base_url, normalized_base, html, subpages, exc, seed_links,
                 aux_vars>>

\* FetchLinkFail without the try/except: the exception leaves scrape_section
FetchLinkFail_uncaught ==
  /\ pc = "fetching"
  /\ \E e \in FetchErrors :
       /\ Serves(FALSE, e)
       /\ exc' = Some(e)
       /\ fetched' = Append(fetched, Responded(subpages[link_idx], FALSE, e))
  /\ clock' = clock + 1
  /\ pc' = "raised"
  /\ UNCHANGED <<base_url, normalized_base, html, subpages, link_idx, results,
                 page_html, seed_links, aux_vars>>

\* lines 72-83: the fetch of the link raises, a placeholder is appended
FetchLinkFail ==
  /\ pc = "fetching"
  /\ \E e \in FetchErrors :
       /\ Serves(FALSE, e)
       /\ results' = Append(results, failed_page(subpages[link_idx], e, clock + 1))
       /\ fetched' = Append(fetched, Responded(subpages[link_idx], FALSE, e))
  /\ clock' = clock + 1
  /\ link_idx' = link_idx + 1
  /\ pc' = "loop"
  /\ UNCHANGED <<base_url, normalized_base, html, subpages, exc, page_html,
                 seed_links, aux_vars>>

\* line 89: return results
Return ==
  /\ pc = "loop"
  /\ link_idx > Len(subpages)
  /\ pc' = "returned"
  /\ UNCHANGED <<base_url, normalized_base, html, subpages, link_idx, results,
                 exc, fetched, page_html, seed_links, clock, aux_vars>>

Next ==
  \/ NormalizeBase
  \/ FetchSeedOk
  \/ FetchSeedFail
  \/ Discover
  \/ StartFetchLink
  \/ FetchLinkOk
  \/ FetchLinkFail
  \/ Return

Spec == Init /\ [][Next]_vars


(***************************************************************************)
(* Properties of a run                                                     *)
(***************************************************************************)
Range(q) == {q[i] : i \in 1..Len(q)}

\* host and path of an absolute URL scheme://host/path?query#fragment
HostOf(u) ==
  LET c == IndexOf(u, {":"}, 1)
      e == IndexOf(u, {"/", "?", "#"}, c + 3)
  IN Slice(u, c + 3, IF e = 0 THEN Len(u) ELSE e - 1)

PathOf(u) ==
  LET c == IndexOf(u, {":"}, 1)
      e == IndexOf(u, {"/", "?", "#"}, c + 3)
      q == IndexOf(u, {"?", "#"}, c + 3)
  IN IF e = 0 \/ u[e] # "/" THEN <<>>
     ELSE Slice(u, e, IF q = 0 THEN Len(u) ELSE q - 1)

SchemeOf(u) == Slice(u, 1, IndexOf(u, {":"}, 1) - 1)

\* discover_links has returned
Discovered == pc \in {"loop", "fetching", "returned"}

\* discover_links has just returned: subpages is its result
JustDiscovered == pc = "loop" /\ link_idx = 1

\* the anchors of the seed page that are hyperlinks to follow: they carry an
\* href that is not blank and is no mailto: or tel: link
Followed ==
  { i \in 1..Len(html.anchors) :
      /\ html.anchors[i].has_href
      /\ strip(html.anchors[i].href) # <<>>
      /\ ~startswith(strip(html.anchors[i].href), MAILTO)
      /\ ~startswith(strip(html.anchors[i].href), TEL) }

\* the parsed target of anchor i of the seed page, resolved against the seed
Target(i) == urlparse(urljoin(normalized_base, strip(html.anchors[i].href)))

\* the entries of subpages with the given scheme, host and one of the paths
Entries(scheme, host, paths) ==
  { k \in 1..Len(subpages) :
      /\ SchemeOf(subpages[k]) = scheme
      /\ HostOf(subpages[k]) = host
      /\ PathOf(subpages[k]) \in paths }

\* the scope test of discover_links on a parsed target
InScope(t) ==
  LET r == rstrip_slash(PathOf(normalized_base))
  IN /\ t.netloc = HostOf(normalized_base)
     /\ startswith(t.path, IF r = <<>> THEN <<"/">> ELSE r)

\* C1: every URL discover_links returns has the seed's host and a path that is
\* the seed's path without its trailing slash, or that path followed by '/'
\* and further segments.
ScopeContainment ==
  Discovered =>
    \A k \in 1..Len(subpages) :
      LET root == rstrip_slash(PathOf(normalized_base)) IN
      /\ HostOf(subpages[k]) = HostOf(normalized_base)
      /\ \/ PathOf(subpages[k]) = root
         \/ startswith(PathOf(subpages[k]), root \o <<"/">>)

\* C2: once the seed is fetched and N URLs are discovered the run cannot fail:
\* it returns N records, the i-th for the i-th URL; a URL whose fetch failed
\* has a record with error set, no title, empty headings, paragraphs, content
\* and metadata, its host as source and its path segments as tags; every URL
\* after it is fetched all the same.
Isolation ==
  /\ pc = "raised" => subpages = <<>>
  /\ Discovered =>
       /\ Len(results) = link_idx - 1
       /\ Len(fetched) = link_idx
       /\ pc = "returned" => Len(results) = Len(subpages)
       /\ \A i \in 1..Len(results) :
            /\ results[i].url = subpages[i]
            /\ fetched[i + 1].url = subpages[i]
            /\ ~fetched[i + 1].ok =>
                 /\ results[i].error.some
                 /\ results[i].error.val # <<>>
                 /\ ~results[i].title.some
                 /\ results[i].headings = <<>>
                 /\ results[i].paragraphs = <<>>
                 /\ results[i].content = <<>>
                 /\ results[i].metadata = <<>>
                 /\ results[i].source = HostOf(subpages[i])
                 /\ results[i].tags
                      = SelectSeq(split_slash(PathOf(subpages[i])),
                                  LAMBDA seg : seg # <<>>)

\* C2 witness: a run returned three records, the first fetch of the loop
\* failed and a later one succeeded
IsolationWitness ==
  /\ pc = "returned"
  /\ Len(results) = 3
  /\ ~fetched[2].ok
  /\ fetched[4].ok
  /\ ~results[3].error.some

\* C3: a failed fetch of the seed URL makes the run fail with no records.
SeedFailureIsFatal ==
  \A i \in 1..Len(fetched) :
    (fetched[i].url = normalized_base /\ ~fetched[i].ok)
      => (pc = "raised" /\ results = <<>>)

\* C4: a run whose seed is valid and reachable returns a record sequence: it
\* fails only if the seed could not be normalized or its fetch failed, a link
\* without host on the seed page is dropped.
HostlessLinkDropped ==
  pc = "raised" =>
    \/ fetched = <<>>
    \/ Len(fetched) = 1 /\ ~fetched[1].ok

\* C5: no URL is fetched twice in a run.
NoDuplicateFetch ==
  \A i, j \in 1..Len(fetched) :
    i # j => fetched[i].url # fetched[j].url

\* the URLs the anchors of a page resolve to, for a page fetched from url
LinkTargets(url, markup) ==
  { urljoin(url, strip(markup.anchors[i].href)) :
      i \in {k \in 1..Len(markup.anchors) : markup.anchors[k].has_href} }

\* C6: a run fetches the seed and the links discover_links found on the seed
\* page and nothing else, so it makes at most 1 + |discover_links(seed)|
\* fetches; a link that only a subpage carries is not among them, so it is
\* neither fetched nor given a record.
SingleLevel ==
  /\ Len(fetched) <= 1 + Len(seed_links)
  /\ \A i \in 1..Len(fetched) :
       fetched[i].url \in {normalized_base} \cup Range(seed_links)
  /\ \A i \in 1..Len(results) : results[i].url \in Range(seed_links)

\* C6 witness: a run returned after fetching last a subpage that links back
\* to the seed and on to a page the seed does not link to
SingleLevelWitness ==
  /\ pc = "returned"
  /\ Len(fetched) = 1 + Len(subpages)
  /\ Len(subpages) >= 2
  /\ fetched[Len(fetched)].ok
  /\ LET targets == LinkTargets(results[Len(results)].url, page_html)
     IN /\ normalized_base \in targets
        /\ targets \ Range(seed_links) # {}

\* C8: two links of the seed page to the same scheme and host whose paths
\* differ only by a final '/' give a single URL in the result of
\* discover_links.
TrailingSlashOneCandidate ==
  JustDiscovered =>
    \A i, j \in Followed :
      LET ti == Target(i)
          tj == Target(j)
      IN (/\ ti.scheme = tj.scheme
          /\ ti.netloc = tj.netloc
          /\ tj.path = ti.path \o <<"/">>)
         => Cardinality(Entries(ti.scheme, ti.netloc, {ti.path, tj.path})) <= 1

\* C9: no URL discover_links returns holds a query or a fragment, and two
\* links of the seed page that resolve to the same scheme, host and path give
\* one entry of the result (none when they are out of scope).
QueryFragmentOneCandidate ==
  JustDiscovered =>
    /\ \A k \in 1..Len(subpages) :
         \A n \in 1..Len(subpages[k]) : subpages[k][n] \notin {"?", "#"}
    /\ \A i, j \in Followed :
         LET ti == Target(i)
             tj == Target(j)
         IN (/\ ti.scheme = tj.scheme
             /\ ti.netloc = tj.netloc
             /\ ti.path = tj.path)
            => LET n == Cardinality(Entries(ti.scheme, ti.netloc, {ti.path}))
               IN n <= 1 /\ (InScope(ti) => n = 1)

\* C9 witness: the seed page links to one in-scope page below the seed once
\* with a query and once with a fragment
QueryFragmentWitness ==
  /\ JustDiscovered
  /\ \E i, j \in Followed :
       /\ Target(i).query # <<>>
       /\ Target(j).fragment # <<>>
       /\ Target(i).scheme = Target(j).scheme
       /\ Target(i).netloc = Target(j).netloc
       /\ Target(i).path = Target(j).path
       /\ InScope(Target(i))
       /\ Target(i).path # PathOf(normalized_base)

\* C10: the result of discover_links is in strictly ascending order of URL
\* string, hence duplicate-free, and holds the seed; the records of a run have
\* strictly ascending, hence pairwise distinct, url values.
SortedDistinct ==
  /\ JustDiscovered =>
       /\ \A i, j \in 1..Len(subpages) :
            i < j => StrLess(subpages[i], subpages[j])
       /\ normalized_base \in Range(subpages)
  /\ \A i, j \in 1..Len(results) :
       i < j => StrLess(results[i].url, results[j].url)

\* C10 witness: a run returned three records
SortedDistinctWitness ==
  /\ pc = "returned"
  /\ Len(subpages) = 3
  /\ Len(results) = 3

\* the content fields of a record hold something
Populated(r) == r.headings # <<>> \/ r.paragraphs # <<>> \/ r.content # <<>>

\* C11: every record of a run has either an error or populated content
\* fields, never both and never neither.
ExactlyOneOfErrorOrContent ==
  \A i \in 1..Len(results) : results[i].error.some <=> ~Populated(results[i])

\* C11 as amended: no record of a run has both an error and populated content
\* fields; a record with an error has empty headings, paragraphs and content.
ErrorExcludesContent ==
  \A i \in 1..Len(results) : ~(results[i].error.some /\ Populated(results[i]))

\* C11 witness: a run returned a record with an error, a record with content
\* and a record with neither
ErrorExcludesContentWitness ==
  /\ pc = "returned"
  /\ \E i, j, k \in 1..Len(results) :
       /\ results[i].error.some
       /\ ~results[j].error.some /\ Populated(results[j])
       /\ ~results[k].error.some /\ ~Populated(results[k])

\* C12: the content of every record of a run, with or without an error, is
\* its paragraphs joined by a blank line, and is empty exactly when the record
\* has no paragraphs.
ContentIsJoinedParagraphs ==
  \A i \in 1..Len(results) :
    /\ results[i].content = join(<<"\n", "\n">>, results[i].paragraphs)
    /\ results[i].content = <<>> <=> results[i].paragraphs = <<>>

\* C12 witness: a run returned a record with two paragraphs, a record without
\* paragraphs of a fetched page and a record of a failed fetch
ContentIsJoinedParagraphsWitness ==
  /\ pc = "returned"
  /\ \E i, j, k \in 1..Len(results) :
       /\ Len(results[i].paragraphs) = 2
       /\ Len(results[i].content)
            = Len(results[i].paragraphs[1]) + 2 + Len(results[i].paragraphs[2])
       /\ ~results[j].error.some /\ results[j].paragraphs = <<>>
       /\ results[k].error.some

\* C14: while the fetch of a discovered URL is outstanding, the fetch of any
\* discovered URL that is still to be fetched can start.
SiblingIndependence ==
  pc = "fetching" =>
    \A j \in (link_idx + 1)..Len(subpages) : ENABLED StartFetchOf(j)

\* an anchor whose href is empty after trimming or starts with mailto: or tel:
NonNavigational(a) ==
  /\ a.has_href
  /\ \/ strip(a.href) = <<>>
     \/ startswith(strip(a.href), MAILTO)
     \/ startswith(strip(a.href), TEL)

\* the seed page without those anchors
NavigationalOnly ==
  [html EXCEPT !.anchors = SelectSeq(html.anchors, LAMBDA a : ~NonNavigational(a))]

\* discover_links has just been called on the seed page, and what came of
\* the call
DiscoverDone ==
  \/ JustDiscovered
  \/ pc = "raised" /\ Len(fetched) = 1 /\ fetched[1].ok
DiscoverOutcome == IF JustDiscovered THEN Ok(subpages) ELSE Raise(exc.val)

\* C21: discover_links gives for a seed page what it gives for the page
\* without the anchors whose href is empty or starts with mailto: or tel:,
\* and for the seed https://example.edu/programs with the links /programs/cs,
\* /programs/ee, https://other.edu/x and mailto:a@b.c it gives the seed and
\* the two /programs/ pages.
NonNavigationalSkipped ==
  /\ DiscoverDone =>
       DiscoverOutcome = discover_links(normalized_base, NavigationalOnly)
  /\ (Discovered /\ normalized_base = ProgramsSeed /\ html = ProgramsPage) =>
       seed_links = << ProgramsSeed,
                       ProgramsSeed \o <<"/","c","s">>,
                       ProgramsSeed \o <<"/","e","e">> >>

\* C21 witness: discover_links returned for the example seed and page, the
\* mailto: link among the anchors and two other links in the result
NonNavigationalSkippedWitness ==
  /\ Discovered
  /\ normalized_base = ProgramsSeed
  /\ html = ProgramsPage
  /\ \E i \in 1..Len(html.anchors) : NonNavigational(html.anchors[i])
  /\ Len(seed_links) = 3

(***************************************************************************)
(* Two runs on one seed.  A run in which every request returned markup is  *)
(* repeated later: scrape_section is called again with the same argument   *)
(* and every request is answered as it was in the first run.               *)
(***************************************************************************)
Rerun ==
  /\ pc = "returned"
  /\ run_no = 1
  /\ \A i \in 1..Len(fetched) : fetched[i].ok
  /\ run_no' = 2
  /\ first_results' = results
  /\ replay' = fetched
  /\ pc' = "start"
  /\ normalized_base' = <<>>
  /\ html' = Markup(<<>>, NoMeta, NoTitle, <<>>, NoBreadcrumb)
  /\ subpages' = <<>>
  /\ link_idx' = 0
  /\ results' = <<>>
  /\ exc' = None
  /\ fetched' = <<>>
  /\ page_html' = Markup(<<>>, NoMeta, NoTitle, <<>>, NoBreadcrumb)
  /\ seed_links' = <<>>
  /\ clock' = clock + 1
  /\ UNCHANGED <<base_url, norm_vars, rest_vars>>

NextDet == Next \/ Rerun

\* the seeds of the repeated runs: one with and one without a scheme
DetSeeds == {Str_p \o <<"/">>, <<"/","/","h","/","p","/","a","?","q">>}

InitDet == base_url \in DetSeeds /\ InitCrawl /\ InitNorm /\ InitRest

SpecDet == InitDet /\ [][NextDet]_vars

\* the second run has returned
Repeated == run_no = 2 /\ pc = "returned"

\* a record without its time of retrieval
Timeless(r) == [r EXCEPT !.retrieved_at = 0]

\* C13: a second run on the same seed that receives the same markup for every
\* URL returns the same sequence of records, equal field for field.
Determinism == Repeated => results = first_results

\* C13 as amended: the second run returns as many records as the first, in
\* the same order, equal in every field other than retrieved_at.
DeterminismButTime ==
  Repeated =>
    /\ Len(results) = Len(first_results)
    /\ \A i \in 1..Len(results) :
         Timeless(results[i]) = Timeless(first_results[i])

\* C13 witness: both runs returned three records, one of them with content,
\* and the records differ in their time of retrieval
DeterminismWitness ==
  /\ Repeated
  /\ Len(results) = 3
  /\ \E i \in 1..3 : results[i].paragraphs # <<>>
  /\ \A i \in 1..3 : results[i].retrieved_at # first_results[i].retrieved_at

(***************************************************************************)
(* normalize_url on every short string                                     *)
(***************************************************************************)
\* the characters the strings under test are built from
NormAlphabet == {"a", ":", "/", "?", "#"}

NormInit ==
  /\ InitCrawl
  /\ base_url = <<>>
  /\ raw \in SeqsUpTo(NormAlphabet, MaxLen)
  /\ once = Unset
  /\ twice = Unset
  /\ InitRest

NormalizeOnce ==
  /\ once = Unset
  /\ once' = normalize_url(raw)
  /\ UNCHANGED <<crawl_vars, rest_vars, raw, twice>>

NormalizeTwice ==
  /\ once.ok
  /\ twice = Unset
  /\ twice' = normalize_url(once.val)
  /\ UNCHANGED <<crawl_vars, rest_vars, raw, once>>

NormNext == NormalizeOnce \/ NormalizeTwice

SpecNorm == NormInit /\ [][NormNext]_vars

\* C7: whenever normalize_url succeeds on a string, it succeeds on its own
\* result and returns it unchanged.
NormalizeIdempotent ==
  (once.ok /\ twice # Unset) => (twice.ok /\ twice.val = once.val)

\* C7 witness: normalize_url was applied twice to a string without scheme that
\* has a path and a query, and changed it the first time
NormalizeIdempotentWitness ==
  /\ once.ok
  /\ twice.ok
  /\ once.val # raw
  /\ urlparse(raw).scheme = <<>>
  /\ urlparse(raw).path # <<>>
  /\ urlparse(raw).query # <<>>

\* the host of a network location, as urllib's hostname property gives it:
\* what follows the user information and precedes the port, in lower case
hostname(netloc) ==
  LET at == CHOOSE k \in 0..Len(netloc) :
              /\ k = 0 \/ netloc[k] = "@"
              /\ \A n \in (k + 1)..Len(netloc) : netloc[n] # "@"
      hostinfo == Slice(netloc, at + 1, Len(netloc))
      colon == IndexOf(hostinfo, {":"}, 1)
  IN LowerStr(IF colon = 0 THEN hostinfo ELSE Slice(hostinfo, 1, colon - 1))

\* C15: normalize_url fails exactly on the strings without a host; on a string
\* with a host it returns a URL with that host and path and with the scheme of
\* the string, https if it has none.
NormalizeNeedsHost ==
  once # Unset =>
    /\ once.ok <=> hostname(urlparse(raw).netloc) # <<>>
    /\ once.ok =>
         /\ hostname(urlparse(once.val).netloc) = hostname(urlparse(raw).netloc)
         /\ urlparse(once.val).path = urlparse(raw).path
         /\ urlparse(once.val).scheme
              = (IF urlparse(raw).scheme = <<>> THEN HTTPS ELSE urlparse(raw).scheme)
(***************************************************************************)
(* parse_page on many pages                                                *)
(***************************************************************************)
\* the first <meta property="og:title"> of a page: none, one without content
\* attribute, one with blank content, one with padded content
ParseOgTitles ==
  { NoMeta,
    [present |-> TRUE, has_content |-> FALSE, content |-> <<>>],
    [present |-> TRUE, has_content |-> TRUE, content |-> <<" ">>],
    [present |-> TRUE, has_content |-> TRUE, content |-> <<" ","o"," ">>] }

\* the <title> of a page: none, an empty one, a blank one, a padded one, and
\* one whose text is split over two nodes
ParseTitles ==
  { NoTitle,
    [present |-> TRUE, strings |-> <<>>],
    [present |-> TRUE, strings |-> <<<<" ">>>>],
    [present |-> TRUE, strings |-> <<<<"t"," ">>>>],
    [present |-> TRUE, strings |-> <<<<"t">>, <<"u">>>>] }

\* the heading and paragraph elements a page is built from
ParseElems ==
  { [tag |-> "h1", strings |-> <<<<"h">>>>],
    [tag |-> "h1", strings |-> <<<<" ">>>>],
    [tag |-> "h2", strings |-> <<<<"x"," "," ","y">>>>],
    [tag |-> "h3", strings |-> <<<<"a">>, <<" ">>, <<" ","b">>>>],
    [tag |-> "h4", strings |-> <<<<"d">>>>],
    [tag |-> "p", strings |-> <<<<"x"," "," ","y">>, <<"z">>>>],
    [tag |-> "p", strings |-> <<<<" ">>>>] }

\* the first element whose class contains "breadcrumb": none, one without
\* items, one with an item and a blank item
ParseBreadcrumbs ==
  { NoBreadcrumb,
    [present |-> TRUE, items |-> <<>>],
    [present |-> TRUE,
     items |-> << [tag |-> "li", strings |-> <<<<"c">>>>],
                  [tag |-> "span", strings |-> <<<<" ">>>>] >>] }

ParseSoups ==
  { Markup(<<>>, o, t, e, b) :
      o \in ParseOgTitles, t \in ParseTitles,
      e \in SeqsUpTo(ParseElems, MaxElems), b \in ParseBreadcrumbs }

\* the URLs of the pages: what discover_links returns for the seed https://h/p
\* whose page links to "/p/ /a", to "/p//b/" and to "/p/a"
ParseLinks ==
  Range(discover_links(Str_p,
          Markup(<< A(<<"/","p","/"," ","/","a">>),
                    A(<<"/","p","/","/","b","/">>),
                    A(<<"/","p","/","a">>) >>,
                 NoMeta, NoTitle, <<>>, NoBreadcrumb)).val)

ParseInit ==
  /\ InitCrawl
  /\ base_url = <<>>
  /\ InitNorm
  /\ soup \in ParseSoups
  /\ page_url \in ParseLinks
  /\ page = None
  /\ InitIndex
  /\ InitRoute

\* lines 85-86: page = parse_page(link, soup)
ParsePage ==
  /\ page = None
  /\ page' = Some(parse_page(page_url, soup, clock))
  /\ UNCHANGED <<crawl_vars, norm_vars, index_vars, route_vars, soup, page_url>>

ParseNext == ParsePage

SpecParse == ParseInit /\ [][ParseNext]_vars
\* the whole text of an element: its text nodes one after the other
TextOf(strings) == join(<<>>, strings)

\* the h1 elements of a page in document order
FirstLevelHeadings(markup) == SelectSeq(markup.elems, LAMBDA e : e.tag = "h1")

\* C16: the title of a page is the content of its og:title if that holds more
\* than whitespace, else the text of its title element if that holds more than
\* whitespace, else the text of its first h1, else absent.
TitleFirstMatchWins ==
  page.some =>
    page.val.title
      = IF soup.og_title.present /\ strip(soup.og_title.content) # <<>>
        THEN Some(strip(soup.og_title.content))
        ELSE IF soup.title.present /\ strip(TextOf(soup.title.strings)) # <<>>
        THEN Some(strip(TextOf(soup.title.strings)))
        ELSE IF FirstLevelHeadings(soup) # <<>>
        THEN Some(get_text(FirstLevelHeadings(soup)[1].strings, <<>>))
        ELSE None
\* the h1, h2 and h3 elements of a page in document order
TopHeadings(markup) ==
  SelectSeq(markup.elems, LAMBDA e : e.tag \in {"h1", "h2", "h3"})

\* C17: the headings of a page are the texts of its h1, h2 and h3 elements in
\* document order, each normalized as the text of a paragraph is (every run of
\* whitespace one space, no whitespace at the ends), the empty ones dropped.
HeadingsNormalized ==
  page.some =>
    page.val.headings
      = SelectSeq([i \in 1..Len(TopHeadings(soup)) |->
                     normalize_whitespace(
                       get_text(TopHeadings(soup)[i].strings, <<" ">>))],
                  LAMBDA t : t # <<>>)
\* C18: no entry of the headings, paragraphs and tags of a record is empty or
\* only whitespace, and the tags are the non-empty segments of the path of
\* the record's URL in their order.
NoBlankEntries ==
  page.some =>
    /\ \A i \in 1..Len(page.val.headings) : strip(page.val.headings[i]) # <<>>
    /\ \A i \in 1..Len(page.val.paragraphs) : strip(page.val.paragraphs[i]) # <<>>
    /\ \A i \in 1..Len(page.val.tags) : strip(page.val.tags[i]) # <<>>
    /\ page.val.tags
         = SelectSeq(split_slash(PathOf(page_url)), LAMBDA seg : seg # <<>>)
\* a page without og:title, title, heading, paragraph and breadcrumb element
Bare(markup) ==
  /\ ~markup.og_title.present
  /\ ~markup.title.present
  /\ markup.elems = <<>>
  /\ ~markup.breadcrumb.present

\* C20: parse_page returns a record without error for every page; for a page
\* without og:title, title, heading, paragraph and breadcrumb element the
\* record has no title, no headings, no paragraphs, empty content and no
\* metadata key.
ExtractionNeverFails ==
  page.some =>
    /\ page.val.url = page_url
    /\ ~page.val.error.some
    /\ Bare(soup) =>
         /\ ~page.val.title.some
         /\ page.val.headings = <<>>
         /\ page.val.paragraphs = <<>>
         /\ page.val.content = <<>>
         /\ DOMAIN page.val.metadata = {}

\* C20 witness: parse_page returned the record of a page without any of the
\* elements it looks for
ExtractionNeverFailsWitness ==
  /\ page.some
  /\ Bare(soup)
  /\ page.val.tags # <<>>
\* C23: the title of a record of parse_page is absent or holds more than
\* whitespace; it is never the empty string.
TitleAbsentOrNonEmpty ==
  page.some =>
    \/ page.val.title = None
    \/ strip(page.val.title.val) # <<>>
(***************************************************************************)
(* index_scraped_pages of backend/scripts/index_scraped_pages.py, run      *)
(* repeatedly on unchanged persisted pages.  A page is the number of       *)
(* chunks the text splitter cuts its text into, 0 for a page whose text is *)
(* shorter than 50 characters.  ChromaDB and the embedding service are     *)
(* outside the repository: a call of theirs returns or raises.             *)
(***************************************************************************)
\* the document at position k of the scraped_pages collection
Doc(k, n) == [_id |-> str_int(k), chunks |-> n]

\* what scraped_pages_collection.find({}) can return
DocLists ==
  UNION { { [k \in 1..len |-> Doc(k, f[k])] : f \in [1..len -> 0..MaxChunks] } :
            len \in 0..MaxDocs }

\* line 102: f"page_{doc_id}_chunk_{i}"
chunk_id(doc_id, i) ==
  <<"p","a","g","e","_">> \o doc_id \o <<"_","c","h","u","n","k","_">>
    \o str_int(i)

\* the chunk the loops are at
current_id == chunk_id(all_docs[doc_pos]._id, chunk_i)

\* lines 50-56: False when the lookup raises
is_already_indexed(doc_id, get_raises) ==
  IF get_raises THEN FALSE ELSE doc_id \in chroma_collection

IndexInit ==
  /\ InitCrawl
  /\ base_url = <<>>
  /\ InitNorm
  /\ InitParse
  /\ InitRoute
  /\ ipc = "idle"
  /\ all_docs \in DocLists
  /\ run_count = 0
  /\ doc_pos = 0
  /\ chunk_i = 0
  /\ chroma_collection = {}
  /\ reembedded = {}
  /\ readded = {}

\* what a step of the indexing leaves alone
other_vars == <<crawl_vars, norm_vars, parse_vars, route_vars>>

\* lines 59-73: index_scraped_pages is called and reads the pages
StartIndexing ==
  /\ ipc = "idle"
  /\ run_count < MaxRuns
  /\ run_count' = run_count + 1
  /\ doc_pos' = 1
  /\ ipc' = "doc"
  /\ UNCHANGED <<other_vars, all_docs, chunk_i, chroma_collection, reembedded, readded>>

\* lines 73-99: the next page; one that is too short is skipped
NextPage ==
  /\ ipc = "doc"
  /\ doc_pos <= Len(all_docs)
  /\ IF all_docs[doc_pos].chunks = 0
     THEN doc_pos' = doc_pos + 1 /\ UNCHANGED <<ipc, chunk_i>>
     ELSE ipc' = "chunk" /\ chunk_i' = 0 /\ doc_pos' = doc_pos
  /\ UNCHANGED <<other_vars, all_docs, run_count, chroma_collection, reembedded, readded>>

\* lines 146-150: every page was processed, the function returns
EndIndexing ==
  /\ ipc = "doc"
  /\ doc_pos > Len(all_docs)
  /\ ipc' = "idle"
  /\ UNCHANGED <<other_vars, all_docs, run_count, doc_pos, chunk_i, chroma_collection,
                 reembedded, readded>>

\* line 101: the chunks of the page are exhausted
EndPage ==
  /\ ipc = "chunk"
  /\ chunk_i >= all_docs[doc_pos].chunks
  /\ doc_pos' = doc_pos + 1
  /\ ipc' = "doc"
  /\ UNCHANGED <<other_vars, all_docs, run_count, chunk_i, chroma_collection, reembedded,
                 readded>>

\* lines 101-106: the next chunk is looked up; one found indexed is skipped
CheckIndexed ==
  /\ ipc = "chunk"
  /\ chunk_i < all_docs[doc_pos].chunks
  /\ \E get_raises \in BOOLEAN :
       IF is_already_indexed(current_id, get_raises)
       THEN chunk_i' = chunk_i + 1 /\ ipc' = ipc
       ELSE chunk_i' = chunk_i /\ ipc' = "embed"
  /\ UNCHANGED <<other_vars, all_docs, run_count, doc_pos, chroma_collection, reembedded,
                 readded>>

\* lines 109, 37-44: embed_text returns a vector
EmbedOk ==
  /\ ipc = "embed"
  /\ reembedded' = reembedded \cup ({current_id} \cap chroma_collection)
  /\ ipc' = "add"
  /\ UNCHANGED <<other_vars, all_docs, run_count, doc_pos, chunk_i, chroma_collection,
                 readded>>

\* lines 109, 45-47, 138-139: the embedding call raises, embed_text returns
\* None and the chunk is counted as an error
EmbedFail ==
  /\ ipc = "embed"
  /\ reembedded' = reembedded \cup ({current_id} \cap chroma_collection)
  /\ chunk_i' = chunk_i + 1
  /\ ipc' = "chunk"
  /\ UNCHANGED <<other_vars, all_docs, run_count, doc_pos, chroma_collection, readded>>

\* lines 126-137: chroma_collection.add returns; an id the collection already
\* holds is left as it is
AddOk ==
  /\ ipc = "add"
  /\ readded' = readded \cup ({current_id} \cap chroma_collection)
  /\ chroma_collection' = chroma_collection \cup {current_id}
  /\ chunk_i' = chunk_i + 1
  /\ ipc' = "chunk"
  /\ UNCHANGED <<other_vars, all_docs, run_count, doc_pos, reembedded>>

\* lines 126, 141-144: chroma_collection.add raises (the id is a duplicate, or
\* the store fails); the rest of the page is given up
AddRaises ==
  /\ ipc = "add"
  /\ readded' = readded \cup ({current_id} \cap chroma_collection)
  /\ doc_pos' = doc_pos + 1
  /\ ipc' = "doc"
  /\ UNCHANGED <<other_vars, all_docs, run_count, chunk_i, chroma_collection, reembedded>>

IndexNext ==
  \/ StartIndexing
  \/ NextPage
  \/ EndIndexing
  \/ EndPage
  \/ CheckIndexed
  \/ EmbedOk
  \/ EmbedFail
  \/ AddOk
  \/ AddRaises

SpecIndex == IndexInit /\ [][IndexNext]_vars

\* C19: over any number of runs on unchanged pages no chunk that is already
\* in the vector collection is embedded again or added again, so every chunk
\* id is added at most once and a run after a complete one adds nothing.
IndexingIdempotent == reembedded = {} /\ readded = {}

(***************************************************************************)
(* The /scrape route of backend/app/api/v1/routes_scrape.py.  httpx is     *)
(* outside the repository: a request on an open client returns a response  *)
(* or raises an httpx.HTTPError, a request on a closed client raises       *)
(* RuntimeError, which is no httpx.HTTPError.                              *)
(***************************************************************************)
\* the texts of a sequence of elements, get_text(" ", strip=True) each, the
\* empty ones dropped
texts_of(es) ==
  nonempty_texts([i \in 1..Len(es) |-> get_text(es[i].strings, <<" ">>)])

\* lines 70-76
extract_paragraphs_of(markup) ==
  texts_of(SelectSeq(markup.elems, LAMBDA e : e.tag = "p"))

\* lines 79-86: all h1, then all h2, then all h3, then all h4
extract_headings_of(markup) ==
  texts_of(SelectSeq(markup.elems, LAMBDA e : e.tag = "h1"))
    \o texts_of(SelectSeq(markup.elems, LAMBDA e : e.tag = "h2"))
    \o texts_of(SelectSeq(markup.elems, LAMBDA e : e.tag = "h3"))
    \o texts_of(SelectSeq(markup.elems, LAMBDA e : e.tag = "h4"))

\* lines 61-67, on the elements of the model
extract_text_blocks(markup) ==
  texts_of(SelectSeq(markup.elems, LAMBDA e : e.tag \in {"p", "h2", "h3", "h4"}))

\* str.upper() on one character
UpperChar(c) ==
  IF IsLower(c) THEN UpperLetters[CHOOSE i \in 1..26 : LowerLetters[i] = c]
  ELSE c

\* word.capitalize()
capitalize(word) ==
  IF word = <<>> THEN <<>>
  ELSE <<UpperChar(word[1])>> \o LowerStr(Tail(word))

\* s.split(): the runs of characters that are not whitespace
RECURSIVE split_ws(_)
split_ws(s) ==
  IF strip(s) = <<>> THEN <<>>
  ELSE IF IndexOf(strip(s), Whitespace, 1) = 0 THEN <<strip(s)>>
  ELSE <<Slice(strip(s), 1, IndexOf(strip(s), Whitespace, 1) - 1)>>
         \o split_ws(Slice(strip(s), IndexOf(strip(s), Whitespace, 1), Len(strip(s))))

\* lines 96-97: the label of a path segment
label_of(segment) ==
  join(<<" ">>,
       [i \in 1..Len(split_ws([j \in 1..Len(segment) |->
                                 IF segment[j] = "-" THEN " " ELSE segment[j]])) |->
          capitalize(split_ws([j \in 1..Len(segment) |->
                                 IF segment[j] = "-" THEN " " ELSE segment[j]])[i])])

\* lines 94-100: the labels of the segments in order, without repetition
RECURSIVE labels_of(_, _)
labels_of(segments, tags) ==
  IF segments = <<>> THEN tags
  ELSE IF label_of(segments[1]) # <<>>
          /\ \A i \in 1..Len(tags) : tags[i] # label_of(segments[1])
  THEN labels_of(Tail(segments), Append(tags, label_of(segments[1])))
  ELSE labels_of(Tail(segments), tags)

\* lines 89-100
infer_tags(url) ==
  labels_of(Slice(extract_path_segments(url), 1,
                  IF Len(extract_path_segments(url)) >= 2 THEN 2
                  ELSE Len(extract_path_segments(url))),
            <<>>)

\* lines 104-117: the metadata dict
scraped_metadata(markup) ==
  [k \in (IF title_from_string(tag_string(markup.title.strings)).some
             /\ markup.title.present
          THEN {"title"} ELSE {})
         \cup (IF first_heading_text(SelectSeq(markup.elems, LAMBDA e : e.tag = "h1")).some
                  /\ texts_of(<<SelectSeq(markup.elems, LAMBDA e : e.tag = "h1")[1]>>) # <<>>
               THEN {"primary_heading"} ELSE {})
         \cup (IF extract_headings_of(markup) # <<>> THEN {"headings"} ELSE {}) |->
     IF k = "title" THEN title_from_string(tag_string(markup.title.strings)).val
     ELSE IF k = "primary_heading"
     THEN get_text(SelectSeq(markup.elems, LAMBDA e : e.tag = "h1")[1].strings, <<" ">>)
     ELSE extract_headings_of(markup)]

\* the exceptions that leave the route
HTTP_400 == "HTTPException 400"
HTTP_404 == "HTTPException 404"
HTTP_502 == "HTTPException 502"
ValidationError == "ValidationError"
RuntimeError == "RuntimeError"

\* lines 103-130: ScrapedPage declares content as str, so the None passed for
\* a page without paragraphs fails its validation
build_scraped_page(url, markup) ==
  IF extract_paragraphs_of(markup) = <<>> THEN Raise(ValidationError)
  ELSE Ok([url |-> url,
           content |-> join(<<"\n", "\n">>, extract_paragraphs_of(markup)),
           source |-> urlparse(url).netloc,
           metadata |-> scraped_metadata(markup),
           tags |-> infer_tags(url)])

ScrapedLink(href, is_internal, is_subpage) ==
  [href |-> href, is_internal |-> is_internal, is_subpage |-> is_subpage]

\* line 138
base_dir_of(base_path) ==
  IF base_path # <<>> /\ base_path[Len(base_path)] = "/" THEN base_path
  ELSE base_path \o <<"/">>

\* lines 156-162
link_of(href, parsed, parsed_base) ==
  ScrapedLink(href, parsed.netloc = parsed_base.netloc,
    /\ parsed.netloc = parsed_base.netloc
    /\ IF parsed_base.path \in {<<>>, <<"/">>}
       THEN parsed.path \notin {<<>>, <<"/">>}
       ELSE startswith(IF parsed.path = <<>> THEN <<"/">> ELSE parsed.path,
                       base_dir_of(parsed_base.path)))

\* lines 142-171: the for loop over soup.find_all("a", href=True), from anchor
\* i on
RECURSIVE links_loop(_, _, _, _)
links_step(base, anchors, i, found, href) ==
  IF urlparse(href).scheme \notin {HTTP, HTTPS}
     \/ \E k \in 1..Len(found) : found[k].href = href
  THEN links_loop(base, anchors, i + 1, found)
  ELSE links_loop(base, anchors, i + 1,
                  Append(found, link_of(href, urlparse(href), urlparse(base))))

links_loop(base, anchors, i, found) ==
  IF i > Len(anchors) THEN found
  ELSE links_step(base, anchors, i, found,
                  urljoin(base, strip(anchors[i].href)))

\* lines 133-173
extract_links(markup, base) ==
  links_loop(base, SelectSeq(markup.anchors, LAMBDA a : a.has_href), 1, <<>>)

\* the url of a request to the route
RouteTargets ==
  { Str_p,                                             \* https://h/p
    Str_p \o <<"/">>,                                  \* https://h/p/
    <<"h","t","t","p","s",":","/","/","h">>,           \* https://h
    <<"h","/","p">> }                                  \* h/p

\* the elements of the target page: none, or two headings and a paragraph
RouteElems ==
  { <<>>,
    << [tag |-> "h2", strings |-> <<<<"x">>>>],
       [tag |-> "h1", strings |-> <<<<"h">>>>],
       [tag |-> "p", strings |-> <<<<"y"," ">>, <<"z">>>>] >> }

\* what the request for the target can return
RoutePages ==
  { Markup(a, NoMeta, NoTitle, e, NoBreadcrumb) :
      a \in SeqsUpTo(Anchors, MaxAnchors), e \in RouteElems }

RouteInit ==
  /\ InitCrawl
  /\ base_url = <<>>
  /\ InitNorm
  /\ InitParse
  /\ InitIndex
  /\ rpc = "start"
  /\ target_url \in RouteTargets
  /\ client = "unopened"
  /\ response = Markup(<<>>, NoMeta, NoTitle, <<>>, NoBreadcrumb)
  /\ scraped = None
  /\ text_blocks = <<>>
  /\ links = <<>>
  /\ subpage_links = <<>>
  /\ link_pos = 0
  /\ subpage_details = <<>>
  /\ raised = None
  /\ requests = <<>>

\* what a step of the route leaves alone
outside_route == <<crawl_vars, norm_vars, parse_vars, index_vars>>

\* one call of client.get as the route made it
Request(url) == [url |-> url, client |-> client]

\* lines 182-186: a url that does not start with "http" is refused
RejectUrl ==
  /\ rpc = "start"
  /\ ~startswith(target_url, HTTP)
  /\ raised' = Some(HTTP_400)
  /\ rpc' = "raised"
  /\ UNCHANGED <<outside_route, target_url, client, response, scraped, text_blocks, links,
                 subpage_links, link_pos, subpage_details, requests>>

\* line 189: the async with block is entered
OpenClient ==
  /\ rpc = "start"
  /\ startswith(target_url, HTTP)
  /\ client' = "open"
  /\ rpc' = "get"
  /\ UNCHANGED <<outside_route, target_url, response, scraped, text_blocks, links,
                 subpage_links, link_pos, subpage_details, raised, requests>>

\* lines 189-191: the target is fetched and the async with block is left,
\* which closes the client
GetOk ==
  /\ rpc = "get"
  /\ requests' = Append(requests, Request(target_url))
  /\ response' \in RoutePages
  /\ client' = "closed"
  /\ rpc' = "parse"
  /\ UNCHANGED <<outside_route, target_url, scraped, text_blocks, links, subpage_links,
                 link_pos, subpage_details, raised>>

\* lines 190-201: the request or raise_for_status raises; the block is left
\* and the exception is turned into an HTTPException
GetFail ==
  /\ rpc = "get"
  /\ requests' = Append(requests, Request(target_url))
  /\ raised' \in {Some(HTTP_404), Some(HTTP_502)}
  /\ client' = "closed"
  /\ rpc' = "raised"
  /\ UNCHANGED <<outside_route, target_url, response, scraped, text_blocks, links,
                 subpage_links, link_pos, subpage_details>>

\* lines 203-211
ParseTarget ==
  /\ rpc = "parse"
  /\ IF build_scraped_page(target_url, response).ok
     THEN /\ scraped' = Some(build_scraped_page(target_url, response).val)
          /\ text_blocks' = extract_text_blocks(response)
          /\ links' = extract_links(response, target_url)
          /\ subpage_links'
               = SelectSeq(extract_links(response, target_url),
                           LAMBDA link : link.is_subpage)
          /\ link_pos' = 1
          /\ rpc' = "loop"
          /\ raised' = raised
     ELSE /\ raised' = Some(build_scraped_page(target_url, response).val)
          /\ rpc' = "raised"
          /\ UNCHANGED <<scraped, text_blocks, links, subpage_links, link_pos>>
  /\ UNCHANGED <<outside_route, target_url, client, response, subpage_details,
                 requests>>

\* what lines 220-232 add for a subpage that was fetched
SubpageContent(href, markup) ==
  [page |-> build_scraped_page(href, markup).val,
   headings |-> extract_headings_of(markup),
   paragraphs |-> extract_paragraphs_of(markup)]

\* lines 213-232: one pass of the for loop.  The request is made on client;
\* an httpx.HTTPError skips the link, any other exception leaves the route
SubpageGet ==
  /\ rpc = "loop"
  /\ link_pos <= Len(subpage_links)
  /\ requests' = Append(requests, Request(subpage_links[link_pos].href))
  /\ IF client # "open"
     THEN /\ raised' = Some(RuntimeError)
          /\ rpc' = "raised"
          /\ UNCHANGED <<link_pos, subpage_details>>
     ELSE \/ /\ link_pos' = link_pos + 1
             /\ UNCHANGED <<rpc, raised, subpage_details>>
          \/ \E m \in SubPages :
               IF build_scraped_page(subpage_links[link_pos].href, m).ok
               THEN /\ subpage_details'
                         = Append(subpage_details,
                                  SubpageContent(subpage_links[link_pos].href, m))
                    /\ link_pos' = link_pos + 1
                    /\ UNCHANGED <<rpc, raised>>
               ELSE /\ raised' = Some(ValidationError)
                    /\ rpc' = "raised"
                    /\ UNCHANGED <<link_pos, subpage_details>>
  /\ UNCHANGED <<outside_route, target_url, client, response, scraped, text_blocks, links,
                 subpage_links>>

\* lines 234-240
RouteReturn ==
  /\ rpc = "loop"
  /\ link_pos > Len(subpage_links)
  /\ rpc' = "returned"
  /\ UNCHANGED <<outside_route, target_url, client, response, scraped, text_blocks, links,
                 subpage_links, link_pos, subpage_details, raised, requests>>

RouteNext ==
  \/ RejectUrl
  \/ OpenClient
  \/ GetOk
  \/ GetFail
  \/ ParseTarget
  \/ SubpageGet
  \/ RouteReturn

SpecRoute == RouteInit /\ [][RouteNext]_vars

\* C22: every request of the route is made while the client is open, no
\* RuntimeError of a closed client leaves the route, and when the route
\* returns every subpage link was requested.
RequestsOnOpenClient ==
  /\ \A i \in 1..Len(requests) : requests[i].client = "open"
  /\ raised # Some(RuntimeError)
  /\ rpc = "returned" => Len(requests) = 1 + Len(subpage_links)
====
